---------------------------- MODULE Spec2Model ----------------------------
(***************************************************************************)
(* A model of svimmer's structural-variant candidate (src/sv.py) and of    *)
(* the statistics helpers it uses (src/utilities.py).                      *)
(*                                                                         *)
(* Text is modelled as a sequence of lexemes.  A lexeme is a pair          *)
(* <<kind, n>>: a word (<<"SVTYPE", 0>>), one of the separators ";", "="   *)
(* and ",", an integer printed with %d (<<"%d", n>>) or a number printed   *)
(* with %.2f (<<"%.2f", h>>, h the value in hundredths).  Splitting,       *)
(* joining and replacing work on these sequences as Python's str methods   *)
(* work on characters.                                                     *)
(***************************************************************************)
EXTENDS Integers, Sequences, FiniteSets, Bags, TLC

VARIABLES
    cfg,    \* the construction-time configuration the driver passes to SV()
    svs,    \* the bag of live SV objects the driver holds
    ret     \* what the last call returned or raised, when it is observable

vars == <<cfg, svs, ret>>

---------------------------------------------------------------------------
(* Lexemes and Python's str operations                                     *)

W(s) == <<s, 0>>
Num(n) == <<"%d", n>>
F2(h) == <<"%.2f", h>>
SEMI == W(";")
EQ == W("=")
COMMA == W(",")

Range(s) == {s[i] : i \in 1..Len(s)}

RECURSIVE Split(_, _)
Split(s, sep) ==
    IF sep \in Range(s)
    THEN LET i == CHOOSE i \in 1..Len(s) :
                      s[i] = sep /\ \A j \in 1..(i - 1) : s[j] # sep
         IN  <<SubSeq(s, 1, i - 1)>> \o Split(SubSeq(s, i + 1, Len(s)), sep)
    ELSE <<s>>

RECURSIVE Replace(_, _, _)
Replace(s, old, new) ==
    IF Len(old) = 0 \/ Len(s) < Len(old) THEN s
    ELSE IF SubSeq(s, 1, Len(old)) = old
         THEN new \o Replace(SubSeq(s, Len(old) + 1, Len(s)), old, new)
         ELSE <<s[1]>> \o Replace(Tail(s), old, new)

\* dict[k] = v
Put(d, k, v) == [x \in (DOMAIN d) \cup {k} |-> IF x = k THEN v ELSE d[x]]

EmptyDict == [x \in {} |-> <<>>]

---------------------------------------------------------------------------
(* make_info_dictionary                                                    *)

NoExc == ""

RECURSIVE InfoLoop(_, _)
InfoLoop(spl_info, info_dict) ==
    IF spl_info = <<>> THEN [exc |-> NoExc, dict |-> info_dict]
    ELSE LET key_val == Head(spl_info)
             parts == Split(key_val, EQ)
         IN  IF EQ \in Range(key_val)
             THEN IF Len(parts) # 2
                  THEN [exc |-> "ValueError", dict |-> info_dict]
                  ELSE InfoLoop(Tail(spl_info), Put(info_dict, parts[1], parts[2]))
             ELSE InfoLoop(Tail(spl_info), Put(info_dict, key_val, <<>>))

make_info_dictionary(info) == InfoLoop(Split(info, SEMI), EmptyDict)

---------------------------------------------------------------------------
(* Records, alleles and the configuration                                  *)

\* A one-word text, such as a key or a type tag.
K(s) == <<W(s)>>

\* An allele is <<name, length>>; the ALT column is a sequence of alleles
\* (the comma separated list).  STAR is the "*" placeholder allele.
STAR == <<"*", 1>>

RECURSIVE AltLen(_)
AltLen(alt) ==
    IF alt = <<>> THEN 0
    ELSE Head(alt)[2] + (IF Len(alt) > 1 THEN 1 + AltLen(Tail(alt)) ELSE 0)

Abs(x) == IF x < 0 THEN -x ELSE x
Min(a, b) == IF a <= b THEN a ELSE b
Max(a, b) == IF a >= b THEN a ELSE b

Configs ==
    [check_type : BOOLEAN, join_mode : BOOLEAN, output_ids : BOOLEAN,
     ignore_bnd : BOOLEAN, ignore_inv : BOOLEAN]

SV_TYPES == <<K("UNK"), K("BND"), K("DEL"), K("INS"), K("INV"), K("NOT_SV")>>

\* SV_TYPES.index(t), 0-based as in Python
TypeIndex(t) == (CHOOSE i \in 1..Len(SV_TYPES) : SV_TYPES[i] = t) - 1

UNK == TypeIndex(K("UNK"))
BND == TypeIndex(K("BND"))
DEL == TypeIndex(K("DEL"))
INS == TypeIndex(K("INS"))
NOT_SV == TypeIndex(K("NOT_SV"))

MinSVSize == 50
SanityDistance == 10000

\* int(text): defined on a text that is one %d lexeme, ValueError otherwise
IntOk(v) == Len(v) = 1 /\ v[1][1] = "%d"
IntOf(v) == v[1][2]

---------------------------------------------------------------------------
(* SV.__init__                                                             *)

\* The object as it is after lines 33-44.  Attributes not assigned yet hold
\* -1 (numbers), <<>> (lists) or {} (the set).
NewSV(rec, c) ==
    [is_outputting_ids |-> c.output_ids,
     join_mode |-> c.join_mode,
     is_sv |-> TRUE,
     check_type |-> c.check_type,
     chromosome |-> rec.chrom,
     begin |-> rec.pos,
     end |-> rec.pos,
     ids |-> IF c.output_ids THEN <<rec.id>> ELSE <<>>,
     old_num_merged_svs |-> -1,
     type |-> -1,
     min_begin |-> -1,
     max_begin |-> -1,
     begins |-> <<>>,
     ends |-> <<>>,
     infos |-> <<>>,
     unique_begins_and_ends |-> {},
     refs |-> <<>>,
     alts |-> <<>>]

\* Lines 52-105: the type is inferred from the allele lengths when the
\* annotation holds no SVTYPE, and related types are joined when it does.
\* Yields whether the record is still an SV, the ALT column, the
\* annotation text and the dictionary.
JoinType(t) ==
    IF t = K("DEL_ALU") \/ t = K("DEL_LINE1") THEN K("DEL")
    ELSE IF t \in {K("ALU"), K("LINE1"), K("SVA"), K("DUP"), K("CNV"),
                   K("INVDUP"), K("INV")} THEN K("INS")
    ELSE IF t = K("TRA") THEN K("BND")
    ELSE t

ResolveType(rec, c, info, info_dict) ==
    LET ref_len == rec.ref[2]
        alt_len == AltLen(rec.alt)
        alt_spl == SelectSeq(rec.alt, LAMBDA x : x # STAR)
        sep == IF Len(info) > 0 THEN info \o <<SEMI>> ELSE info
        no == [is_sv |-> FALSE, alt |-> rec.alt, info |-> info, dict |-> info_dict]
        inferred(t, size) ==
            [is_sv |-> TRUE,
             alt |-> <<alt_spl[1]>>,
             info |-> sep \o <<W("SVTYPE"), EQ, W(t), SEMI,
                               W("SVLEN"), EQ, Num(alt_len - ref_len)>>,
             dict |-> Put(Put(Put(info_dict, K("SVTYPE"), K(t)),
                              K("SVSIZE"), <<Num(size)>>),
                          K("SVLEN"), <<Num(alt_len - ref_len)>>)]
    IN  IF K("SVTYPE") \notin DOMAIN info_dict
        THEN LET r == IF Len(alt_spl) = 1
                      THEN IF ref_len >= alt_len + MinSVSize
                           THEN inferred("DEL", ref_len - alt_len)
                           ELSE IF alt_len >= ref_len + MinSVSize
                                THEN inferred("INS", alt_len - ref_len)
                                ELSE no
                      ELSE no
             IN  IF r.is_sv /\ K("SVTYPE") \notin DOMAIN r.dict
                 THEN [no EXCEPT !.dict = Put(info_dict, K("SVTYPE"), K("NOT_SV"))]
                 ELSE r
        ELSE LET t == info_dict[K("SVTYPE")]
             IN  IF \/ c.ignore_bnd /\ (t = K("BND") \/ t = K("TRA"))
                    \/ c.ignore_inv /\ t = K("INV")
                 THEN no
                 ELSE [is_sv |-> TRUE, alt |-> rec.alt, info |-> info,
                       dict |-> Put(info_dict, K("SVTYPE"), JoinType(t))]

\* Lines 109-118: the old merge count is read and the old annotations are
\* removed from the annotation text.
RemoveOld(c, info, info_dict) ==
    LET has_num == ~c.join_mode /\ K("NUM_MERGED_SVS") \in DOMAIN info_dict
        num == IF has_num THEN info_dict[K("NUM_MERGED_SVS")] ELSE <<>>
        info1 == IF has_num
                 THEN Replace(info, <<W("NUM_MERGED_SVS"), EQ>> \o num \o <<SEMI>>, <<>>)
                 ELSE info
        info2 == IF K("STDDEV_POS") \in DOMAIN info_dict
                 THEN Replace(info1, <<W("STDDEV_POS"), EQ>>
                                         \o info_dict[K("STDDEV_POS")] \o <<SEMI>>, <<>>)
                 ELSE info1
    IN  IF has_num /\ ~IntOk(num)
        THEN [exc |-> "ValueError", old_num_merged_svs |-> -1, info |-> info]
        ELSE [exc |-> NoExc,
              old_num_merged_svs |-> IF has_num THEN IntOf(num) ELSE -1,
              info |-> info2]

\* Lines 120-140: the end of a deletion, and the size checks.  Yields the
\* end and whether the record is still an SV.
HasKey(info_dict, k) == K(k) \in DOMAIN info_dict

\* A deletion that ends at its begin passes
TooShort_EndBeforeBegin(begin, end) == end < begin

\* Line 129
TooShort(begin, end) == end - MinSVSize < begin

SizeCheck(begin, info_dict) ==
    LET t == info_dict[K("SVTYPE")]
        bad(k) == HasKey(info_dict, k) /\ ~IntOk(info_dict[K(k)])
        val(k) == IntOf(info_dict[K(k)])
        raise == [exc |-> "ValueError", is_sv |-> TRUE, end |-> begin]
    IN  IF t = K("DEL")
        THEN LET src == IF HasKey(info_dict, "END") THEN "END"
                        ELSE IF HasKey(info_dict, "SVSIZE") THEN "SVSIZE"
                        ELSE IF HasKey(info_dict, "SVLEN") THEN "SVLEN"
                        ELSE ""
             IN  IF src # "" /\ bad(src) THEN raise
                 ELSE LET end == IF src = "END" THEN val(src)
                                 ELSE IF src = "" THEN begin
                                 ELSE begin + Abs(val(src))
                      IN  [exc |-> NoExc, is_sv |-> ~TooShort(begin, end),
                           end |-> end]
        ELSE IF t = K("INS")
        THEN IF bad("SVLEN") THEN raise
             ELSE LET svlen0 == IF HasKey(info_dict, "SVLEN") THEN val("SVLEN") ELSE -1
                  IN  IF svlen0 = -1 /\ bad("SVSIZE") THEN raise
                      ELSE LET svlen == IF svlen0 = -1
                                        THEN IF HasKey(info_dict, "SVSIZE")
                                             THEN val("SVSIZE") ELSE -1
                                        ELSE svlen0
                           IN  [exc |-> NoExc,
                                is_sv |-> ~(/\ svlen < MinSVSize
                                            /\ ~HasKey(info_dict, "SVINSSEQ")
                                            /\ ~HasKey(info_dict, "LEFT_SVINSSEQ")
                                            /\ ~HasKey(info_dict, "RIGHT_SVINSSEQ")),
                                end |-> begin]
        ELSE [exc |-> NoExc, is_sv |-> TRUE, end |-> begin]

\* Lines 142-149
AssignType(c, info_dict) ==
    IF c.check_type
    THEN IF info_dict[K("SVTYPE")] \in Range(SV_TYPES)
         THEN [exc |-> NoExc, type |-> TypeIndex(info_dict[K("SVTYPE")])]
         ELSE [exc |-> "AssertionError", type |-> UNK]
    ELSE [exc |-> NoExc, type |-> UNK]

\* The constructor: [exc, sv], sv the object built (is_sv = FALSE when the
\* constructor returned early) and exc the exception that left none.
SV(vcf_record, c) ==
    LET self == NewSV(vcf_record, c)
        raised(e) == [exc |-> e, sv |-> [self EXCEPT !.is_sv = FALSE]]
        info0 == IF vcf_record.info = K(".") THEN <<>> ELSE vcf_record.info
        parsed == make_info_dictionary(info0)
    IN  IF parsed.exc # NoExc THEN raised(parsed.exc)
        ELSE
        LET t == ResolveType(vcf_record, c, info0, parsed.dict)
        IN  IF ~t.is_sv THEN [exc |-> NoExc, sv |-> [self EXCEPT !.is_sv = FALSE]]
            ELSE
            LET old == RemoveOld(c, t.info, t.dict)
            IN  IF old.exc # NoExc THEN raised(old.exc)
                ELSE
                LET self1 == [self EXCEPT !.old_num_merged_svs = old.old_num_merged_svs]
                    size == SizeCheck(self.begin, t.dict)
                IN  IF size.exc # NoExc THEN raised(size.exc)
                    ELSE IF ~size.is_sv
                    THEN [exc |-> NoExc,
                          sv |-> [self1 EXCEPT !.is_sv = FALSE, !.end = size.end]]
                    ELSE
                    LET ty == AssignType(c, t.dict)
                    IN  IF ty.exc # NoExc THEN raised(ty.exc)
                        ELSE [exc |-> NoExc,
                              sv |-> [self1 EXCEPT
                                        !.end = size.end,
                                        !.type = ty.type,
                                        !.min_begin = self.begin,
                                        !.max_begin = self.begin,
                                        !.begins = <<self.begin>>,
                                        !.ends = <<size.end>>,
                                        !.infos = <<old.info>>,
                                        !.unique_begins_and_ends = {<<self.begin, size.end>>},
                                        !.refs = <<vcf_record.ref>>,
                                        !.alts = <<t.alt>>]]

---------------------------------------------------------------------------
(* utilities.py                                                            *)

RECURSIVE Sum(_)
Sum(data) == IF data = <<>> THEN 0 ELSE Head(data) + Sum(Tail(data))

RECURSIVE SeqMin(_)
SeqMin(data) ==
    IF Len(data) = 1 THEN data[1] ELSE Min(Head(data), SeqMin(Tail(data)))

RECURSIVE ISqrtIn(_, _, _)
ISqrtIn(q, lo, hi) ==
    IF lo = hi THEN lo
    ELSE LET mid == (lo + hi + 1) \div 2
         IN  IF mid * mid <= q THEN ISqrtIn(q, mid, hi) ELSE ISqrtIn(q, lo, mid - 1)

\* The largest s with s * s <= q
ISqrt(q) == ISqrtIn(q, 0, Min(q, 46340))

\* One more decimal digit of a square root: the root so far is S (scaled),
\* the remainder R, both over the denominator D.
SqrtDigit(S, R, D) ==
    LET t == CHOOSE t \in 0..9 :
                 /\ (20 * S * t + t * t) * D <= 100 * R
                 /\ t < 9 => (20 * S * (t + 1) + (t + 1) * (t + 1)) * D > 100 * R
    IN  [S |-> 10 * S + t, R |-> 100 * R - (20 * S * t + t * t) * D]

\* calculate_stddev(data) with the default degrees_of_freedom = 1, as
\* "%.2f" prints it: the value in hundredths, rounded to the nearest.  The
\* deviations are taken from the integer part of the mean, which leaves
\* the sum of squared deviations n * ssd = n * sum(d^2) - sum(d)^2 unchanged.
calculate_stddev(data) ==
    LET n == Len(data)
    IN  IF n < 2 THEN 0
        ELSE
        LET lo == SeqMin(data)
            c == lo + Sum([i \in 1..n |-> data[i] - lo]) \div n
            d == [i \in 1..n |-> data[i] - c]
            N == n * Sum([i \in 1..n |-> d[i] * d[i]]) - Sum(d) * Sum(d)
            D == n * (n - 1)
            s0 == ISqrt(N \div D)
            r0 == [S |-> s0, R |-> N - s0 * s0 * D]
            r1 == SqrtDigit(r0.S, r0.R, D)
            r2 == SqrtDigit(r1.S, r1.R, D)
        IN  r2.S + (IF 4 * r2.S * D + D <= 4 * r2.R THEN 1 ELSE 0)

Count(data, x) == Cardinality({i \in 1..Len(data) : data[i] = x})

\* min() in the place of max()
get_least_common_item(data) ==
    {x \in Range(data) : \A y \in Range(data) : Count(data, x) <= Count(data, y)}

\* get_most_common_item: max(set(data), key=data.count).  max() returns
\* the first maximal element in the set's iteration order, which the
\* language leaves open: every element with the largest count is possible.
get_most_common_item(data) ==
    {x \in Range(data) : \A y \in Range(data) : Count(data, x) >= Count(data, y)}

---------------------------------------------------------------------------
(* SV.__str__, SV.finalize, SV.should_merge, SV.merge                      *)

\* Lines 173-176
num_svs(self) ==
    Len(self.begins)
      + (IF self.old_num_merged_svs > 0 THEN self.old_num_merged_svs - 1 ELSE 0)

RECURSIVE JoinIds(_)
JoinIds(ids) ==
    IF ids = <<>> THEN <<>>
    ELSE IF Len(ids) = 1 THEN <<W(ids[1])>>
    ELSE <<W(ids[1]), COMMA>> \o JoinIds(Tail(ids))

\* The line __str__ returns, as its eight columns.
Str(self) ==
    LET info0 == self.infos[1]
        info1 == IF Len(info0) > 0 THEN info0 \o <<SEMI>> ELSE info0
        num_text == IF self.join_mode THEN "NUM_JOINED_SVS" ELSE "NUM_MERGED_SVS"
        tail == <<W(num_text), EQ, Num(num_svs(self)), SEMI,
                  W("STDDEV_POS"), EQ, F2(calculate_stddev(self.begins)), COMMA,
                  F2(calculate_stddev(self.ends))>>
        info == IF self.is_outputting_ids
                THEN info1 \o <<W("MERGED_IDS"), EQ>> \o JoinIds(self.ids)
                           \o <<SEMI>> \o tail
                ELSE info1 \o tail
    IN  [chrom |-> self.chromosome,
         pos |-> self.begin,
         id |-> ".",
         ref |-> self.refs[1],
         alt |-> self.alts[1],
         qual |-> 0,
         filter |-> ".",
         info |-> info]

\* The possible objects after self.finalize()
finalize(self) ==
    LET begins_and_ends == [i \in 1..Len(self.begins) |-> <<self.begins[i], self.ends[i]>>]
    IN  { LET i == CHOOSE i \in 1..Len(begins_and_ends) :
                       /\ begins_and_ends[i] = be
                       /\ \A j \in 1..(i - 1) : begins_and_ends[j] # be
          IN  [self EXCEPT !.begin = be[1],
                           !.end = be[2],
                           !.infos[1] = self.infos[i],
                           !.refs[1] = self.refs[i],
                           !.alts[1] = self.alts[i]]
          : be \in get_most_common_item(begins_and_ends) }

\* The size difference is not looked at
overlaps_NoSizeCheck(begin, end, other_sv, max_sv_distance, max_size_difference) ==
    /\ Abs(begin - other_sv.begin) <= max_sv_distance
    /\ Abs(end - other_sv.end) <= max_sv_distance

\* Lines 247-249
overlaps(begin, end, other_sv, max_sv_distance, max_size_difference) ==
    /\ Abs(begin - other_sv.begin) <= max_sv_distance
    /\ Abs(end - other_sv.end) <= max_sv_distance
    /\ Abs((other_sv.end - other_sv.begin) - (end - begin)) <= max_size_difference

should_merge(self, other_sv, max_sv_distance, max_size_difference) ==
    IF other_sv.type # self.type THEN FALSE
    ELSE IF \/ Abs(other_sv.max_begin - self.min_begin) > SanityDistance
            \/ Abs(other_sv.min_begin - self.max_begin) > SanityDistance
    THEN FALSE
    ELSE \E be \in self.unique_begins_and_ends :
            overlaps(be[1], be[2], other_sv, max_sv_distance, max_size_difference)

\* The range is left as it was
merge_range_NotUpdated(self, other_sv) == self

\* Lines 265-266
merge_range(self, other_sv) ==
    [self EXCEPT
        !.min_begin = Min(self.min_begin, other_sv.min_begin),
        !.max_begin = Max(self.max_begin, other_sv.max_begin)]

\* other_sv's records come first
merge_lists_OtherFirst(self, other_sv) ==
    [self EXCEPT
        !.begins = other_sv.begins \o self.begins,
        !.ends = other_sv.ends \o self.ends,
        !.infos = other_sv.infos \o self.infos,
        !.refs = other_sv.refs \o self.refs,
        !.alts = other_sv.alts \o self.alts]

\* Lines 267-271
merge_lists(self, other_sv) ==
    [self EXCEPT
        !.begins = self.begins \o other_sv.begins,
        !.ends = self.ends \o other_sv.ends,
        !.infos = self.infos \o other_sv.infos,
        !.refs = self.refs \o other_sv.refs,
        !.alts = self.alts \o other_sv.alts]

\* An assignment in the place of the union
merge_intervals_Assigned(self, other_sv) ==
    [self EXCEPT !.unique_begins_and_ends = other_sv.unique_begins_and_ends]

\* Line 272
merge_intervals(self, other_sv) ==
    [self EXCEPT
        !.unique_begins_and_ends =
            self.unique_begins_and_ends \cup other_sv.unique_begins_and_ends]

\* Lines 274-275
merge_count(self, other_sv) ==
    IF other_sv.old_num_merged_svs > 0
    THEN [self EXCEPT !.old_num_merged_svs =
                          self.old_num_merged_svs + (other_sv.old_num_merged_svs - 1)]
    ELSE self

\* Lines 277-278
merge_ids(self, other_sv) ==
    IF self.is_outputting_ids
    THEN [self EXCEPT !.ids = self.ids \o other_sv.ids]
    ELSE self

\* self after self.merge(other_sv); the assertion of line 263 is the
\* guard of the Merge action.
merge(self, other_sv) ==
    merge_ids(
        merge_count(
            merge_intervals(
                merge_lists(merge_range(self, other_sv), other_sv),
                other_sv),
            other_sv),
        other_sv)

---------------------------------------------------------------------------
(* The driver: it reads records, constructs objects, merges and finalizes  *)
(* them, and writes them out.                                              *)

MaxRecords == 3
MaxRereadRecords == 2
MaxInfoLen == 4

NoRet == [op |-> "none"]

One(x) == SetToBag({x})

RECURSIVE Members(_, _)
Members(b, S) ==
    IF S = {} THEN 0
    ELSE LET e == CHOOSE e \in S : TRUE
         IN  CopiesIn(e, b) * (IF e.is_sv THEN Len(e.begins) ELSE 1)
               + Members(b, S \ {e})

\* The number of records read into the objects of bag b
TotalRecords(b) == Members(b, BagToSet(b))

Usable == {sv \in BagToSet(svs) : sv.is_sv}

\* sv = SV(vcf_record, ...); an object that is not an SV is kept too, until
\* the driver drops it.
Construct(vcf_record, max) ==
    /\ TotalRecords(svs) < max
    /\ LET r == SV(vcf_record, cfg)
       IN  IF r.exc # NoExc
           THEN /\ svs' = svs
                /\ ret' = [op |-> "SV", exc |-> r.exc]
           ELSE /\ svs' = svs (+) One(r.sv)
                /\ ret' = NoRet
    /\ UNCHANGED cfg

\* self.merge(other_sv); the driver drops other_sv afterwards.
Merge(self, other_sv) ==
    /\ self \in Usable
    /\ other_sv \in {sv \in BagToSet(svs (-) One(self)) : sv.is_sv}
    /\ IF self.type = other_sv.type
       THEN /\ svs' = ((svs (-) One(self)) (-) One(other_sv)) (+) One(merge(self, other_sv))
            /\ ret' = NoRet
       ELSE /\ svs' = svs
            /\ ret' = [op |-> "merge", exc |-> "AssertionError"]
    /\ UNCHANGED cfg

\* self.finalize()
Finalize(self) ==
    /\ self \in Usable
    /\ \E after \in finalize(self) : svs' = (svs (-) One(self)) (+) One(after)
    /\ ret' = NoRet
    /\ UNCHANGED cfg

\* str(self), written to the output
Serialize(self) ==
    /\ self \in Usable
    /\ ret' = [op |-> "str", line |-> Str(self)]
    /\ UNCHANGED <<cfg, svs>>

\* A later run reads a line this program wrote.
Reread ==
    /\ ret.op = "str"
    /\ Construct([chrom |-> ret.line.chrom, pos |-> ret.line.pos, id |-> ret.line.id,
                  ref |-> ret.line.ref, alt |-> ret.line.alt, info |-> ret.line.info],
                 MaxRereadRecords)

\* make_info_dictionary(info)
Parse(info) ==
    /\ ret' = [op |-> "make_info_dictionary", info |-> info,
               result |-> make_info_dictionary(info)]
    /\ UNCHANGED <<cfg, svs>>

---------------------------------------------------------------------------
(* The inputs                                                              *)

Rec(pos, id, ref, alt, info) ==
    [chrom |-> "chr1", pos |-> pos, id |-> id, ref |-> ref, alt |-> alt, info |-> info]

Tok(k, v) == <<W(k), EQ>> \o v

RECURSIVE JoinSemi(_)
JoinSemi(toks) ==
    IF toks = <<>> THEN <<>>
    ELSE IF Len(toks) = 1 THEN toks[1]
    ELSE toks[1] \o <<SEMI>> \o JoinSemi(Tail(toks))

BaseN == <<"N", 1>>
SymDEL == <<<<"<DEL>", 5>>>>
SymINS == <<<<"<INS>", 5>>>>
SymBND == <<<<"N[chr2:5[", 9>>>>

\* The records of the merging runs: deletions whose end comes from END,
\* SVLEN, SVSIZE and the allele lengths, near each other and 10000 and
\* 20000 bases away; a deletion that was merged before; a deletion that is
\* too short; insertions; a breakend.
Records ==
    { Rec(100, "a", BaseN, SymDEL, JoinSemi(<<Tok("SVTYPE", K("DEL")), Tok("END", <<Num(160)>>)>>)),
      Rec(105, "b", BaseN, SymDEL,
          JoinSemi(<<Tok("SVTYPE", K("DEL")), Tok("SVLEN", <<Num(-70)>>),
                     Tok("NUM_MERGED_SVS", <<Num(3)>>),
                     Tok("STDDEV_POS", <<F2(250), COMMA, F2(0)>>)>>)),
      Rec(10100, "c", BaseN, SymDEL,
          JoinSemi(<<Tok("SVSIZE", <<Num(50)>>), Tok("SVTYPE", K("DEL_ALU"))>>)),
      Rec(20100, "d", <<"ref51", 51>>, <<BaseN>>, K(".")),
      Rec(100, "e", BaseN, SymDEL, JoinSemi(<<Tok("SVTYPE", K("DEL")), Tok("END", <<Num(130)>>)>>)),
      Rec(100, "f", BaseN, SymINS, JoinSemi(<<Tok("SVTYPE", K("INS")), Tok("SVLEN", <<Num(60)>>)>>)),
      Rec(10100, "g", BaseN, <<<<"alt60", 60>>, STAR>>, K(".")),
      Rec(100, "h", BaseN, SymBND, Tok("SVTYPE", K("BND"))) }

\* The records of the rereading runs: every order of up to three of these
\* annotations, and records whose type tag is special.
RereadTokens ==
    { Tok("SVTYPE", K("BND")), Tok("NUM_MERGED_SVS", <<Num(2)>>),
      Tok("STDDEV_POS", <<F2(150), COMMA, F2(0)>>), K("IMPRECISE") }

RereadInfos ==
    { JoinSemi(toks) : toks \in
        { t \in UNION {[1..n -> RereadTokens] : n \in 1..3} :
            \A i, j \in 1..Len(t) : i # j => t[i] # t[j] } }

RereadRecords ==
    { Rec(100, "r", BaseN, SymBND, info) : info \in RereadInfos }
      \cup { Rec(100, "s", BaseN, SymBND, Tok("SVTYPE", K(t))) :
                t \in {"NOT_SV", "INV", "TRA", "DUP:TANDEM"} }
      \cup { Rec(100, "t", BaseN, SymBND, Tok("SVTYPE", K("BND")) \o <<EQ, W("x")>>) }

\* The annotation texts of the parsing runs: every text of up to MaxInfoLen
\* lexemes over two words and the two separators.
InfoStrings ==
    UNION { [1..n -> {W("A"), W("B"), EQ, SEMI}] : n \in 0..MaxInfoLen }

---------------------------------------------------------------------------
(* The specifications                                                      *)

Init ==
    /\ cfg \in Configs
    /\ svs = EmptyBag
    /\ ret = NoRet

Next ==
    \/ \E r \in Records : Construct(r, MaxRecords)
    \/ \E a, b \in BagToSet(svs) : Merge(a, b)
    \/ \E a \in BagToSet(svs) : Finalize(a)

\* The merging runs exclude no type: the two exclusion flags act in the
\* constructor alone, and the rereading runs cover them.
InitMerge ==
    /\ cfg \in {c \in Configs : ~c.ignore_bnd /\ ~c.ignore_inv}
    /\ svs = EmptyBag
    /\ ret = NoRet

Spec == InitMerge /\ [][Next]_vars

NextReread ==
    \/ \E r \in RereadRecords : Construct(r, MaxRereadRecords)
    \/ \E a \in BagToSet(svs) : Serialize(a)
    \/ Reread

SpecReread == Init /\ [][NextReread]_vars

NextParse == \E info \in InfoStrings : Parse(info)

\* The defaults of SV.__init__; parsing reads no configuration.
DefaultConfig ==
    [check_type |-> TRUE, join_mode |-> FALSE, output_ids |-> FALSE,
     ignore_bnd |-> FALSE, ignore_inv |-> FALSE]

InitParse ==
    /\ cfg = DefaultConfig
    /\ svs = EmptyBag
    /\ ret = NoRet

SpecParse == InitParse /\ [][NextParse]_vars

---------------------------------------------------------------------------
(* The claims                                                              *)

\* The thresholds the driver passes to should_merge
MaxDistances == {0, 5, 10000}
MaxSizeDiffs == {0, 10}

UsableIn(b) == {sv \in BagToSet(b) : sv.is_sv}

Pairs(sv) == [i \in 1..Len(sv.begins) |-> <<sv.begins[i], sv.ends[i]>>]

\* The least index of x in data
FirstIndex(data, x) ==
    CHOOSE i \in 1..Len(data) : data[i] = x /\ \A j \in 1..(i - 1) : data[j] # x

\* No finalize() has changed the object: merge() leaves begin and end alone,
\* so they are still those of the first record.
NotYetFinalized(sv) == sv.begin = sv.begins[1] /\ sv.end = sv.ends[1]

C2_MergeConcatenates ==
    [][\A self \in Usable : \A other \in UsableIn(svs (-) One(self)) :
         (Merge(self, other) /\ self.type = other.type) =>
            \E m \in BagToSet(svs') :
               /\ svs' = ((svs (-) One(self)) (-) One(other)) (+) One(m)
               /\ m.begins = self.begins \o other.begins
               /\ m.ends = self.ends \o other.ends
               /\ m.infos = self.infos \o other.infos
               /\ m.refs = self.refs \o other.refs
               /\ m.alts = self.alts \o other.alts
               /\ self.is_outputting_ids => m.ids = self.ids \o other.ids
               /\ m.unique_begins_and_ends =
                     self.unique_begins_and_ends \cup other.unique_begins_and_ends
               /\ m.min_begin = Min(self.min_begin, other.min_begin)
               /\ m.max_begin = Max(self.max_begin, other.max_begin)]_vars

\* An object made by merging records with different begins, its ids tracked
C2_Witness ==
    \E m \in Usable :
        /\ Len(m.begins) >= 2
        /\ m.begins[1] > m.begins[2]
        /\ Cardinality(m.unique_begins_and_ends) = 2
        /\ m.min_begin < m.max_begin
        /\ m.is_outputting_ids /\ Len(m.ids) = 2

\* The merged count a record carries: its NUM_MERGED_SVS, 1 without one
PriorCount(id) ==
    LET rec == CHOOSE r \in Records : r.id = id
        d == make_info_dictionary(rec.info).dict
    IN  IF HasKey(d, "NUM_MERGED_SVS") THEN IntOf(d[K("NUM_MERGED_SVS")]) ELSE 1

\* The count str(sv) reports
ReportedCount(sv) ==
    IntOf(make_info_dictionary(Str(sv).info).dict[K("NUM_MERGED_SVS")])

\* C3: with join mode off, the NUM_MERGED_SVS the object is written with is
\* the sum of the prior merged counts of the records it absorbed (1 for a
\* record without one), whichever object was the receiver of each merge.
\* The absorbed records are read off the ids, in the runs that track them.
C3_CountIsSumOfPriorCounts ==
    \A sv \in Usable :
        (~sv.join_mode /\ sv.is_outputting_ids) =>
            ReportedCount(sv) = Sum([i \in 1..Len(sv.ids) |-> PriorCount(sv.ids[i])])

\* The type construction assigns to a record with this annotation
ConstructedType(sv, info) ==
    IF sv.check_type
    THEN TypeIndex(JoinType(make_info_dictionary(info).dict[K("SVTYPE")]))
    ELSE UNK

\* C4: the lists of a usable object have one length, every (begin, end) of
\* the lists is in the interval set, every begin lies between min_begin
\* and max_begin, and the type is the one construction assigned.
C4_DataModelInvariant ==
    \A sv \in Usable :
        /\ Len(sv.begins) = Len(sv.ends)
        /\ Len(sv.begins) = Len(sv.infos)
        /\ Len(sv.begins) = Len(sv.refs)
        /\ Len(sv.begins) = Len(sv.alts)
        /\ \A i \in 1..Len(sv.begins) :
              /\ <<sv.begins[i], sv.ends[i]>> \in sv.unique_begins_and_ends
              /\ sv.min_begin <= sv.begins[i]
              /\ sv.begins[i] <= sv.max_begin
              /\ sv.type = ConstructedType(sv, sv.infos[i])

\* An object that was merged twice and finalized
C4_Witness ==
    \E sv \in Usable :
        /\ Len(sv.begins) >= 3
        /\ Cardinality(sv.unique_begins_and_ends) >= 2
        /\ sv.min_begin < sv.max_begin
        /\ ~NotYetFinalized(sv)

\* C5: after finalize, (begin, end) is a pair that no other pair of the
\* lists outnumbers, and refs[0], alts[0], infos[0] are what the lists held
\* at the pair's first index before the call.
C5_FinalizeSelectsMode ==
    [][\A self \in Usable :
         Finalize(self) =>
            \E m \in BagToSet(svs') :
               /\ svs' = (svs (-) One(self)) (+) One(m)
               /\ <<m.begin, m.end>> \in Range(Pairs(self))
               /\ \A p \in Range(Pairs(self)) :
                     Count(Pairs(self), <<m.begin, m.end>>) >= Count(Pairs(self), p)
               /\ LET i == FirstIndex(Pairs(self), <<m.begin, m.end>>)
                  IN  /\ m.refs[1] = self.refs[i]
                      /\ m.alts[1] = self.alts[i]
                      /\ m.infos[1] = self.infos[i]]_vars

\* A finalized object whose representative is a pair seen twice that is not
\* the pair of the first record
C5_Witness ==
    \E sv \in Usable :
        /\ Len(sv.begins) = 3
        /\ ~NotYetFinalized(sv)
        /\ Count(Pairs(sv), <<sv.begin, sv.end>>) = 2
        /\ sv.infos[1] = sv.infos[2]
        /\ sv.infos[1] # sv.infos[3]

\* C6: with type validation on, a usable deletion has end - begin >= 50 and
\* a usable insertion has end = begin, and so has every pair of its lists.
C6_SizeBounds ==
    \A sv \in Usable :
        sv.check_type =>
            /\ sv.type = DEL =>
                  /\ sv.end - sv.begin >= MinSVSize
                  /\ \A i \in 1..Len(sv.begins) : sv.ends[i] - sv.begins[i] >= MinSVSize
            /\ sv.type = INS =>
                  /\ sv.end = sv.begin
                  /\ \A i \in 1..Len(sv.begins) : sv.ends[i] = sv.begins[i]

\* A merged and finalized deletion beside an insertion, in a run that
\* validates types
C6_Witness ==
    /\ \E sv \in Usable :
          /\ sv.check_type /\ sv.type = DEL
          /\ Len(sv.begins) >= 2
          /\ ~NotYetFinalized(sv)
    /\ \E sv \in Usable : sv.check_type /\ sv.type = INS
    /\ cfg.check_type

\* C7: no usable object has the type NOT_SV.
C7_NotSVIsRejected ==
    \A sv \in Usable : sv.type # NOT_SV

\* The key of each token of an annotation text
TokenKeys(info) ==
    LET toks == Split(info, SEMI)
    IN  [i \in 1..Len(toks) |-> Split(toks[i], EQ)[1]]

\* C8: with join mode off, the annotation an object carries holds neither
\* NUM_MERGED_SVS nor STDDEV_POS, and the annotation it is written with
\* holds each exactly once.
C8_OldKeysAreStripped ==
    \A sv \in Usable :
        ~sv.join_mode =>
            /\ Count(TokenKeys(sv.infos[1]), K("NUM_MERGED_SVS")) = 0
            /\ Count(TokenKeys(sv.infos[1]), K("STDDEV_POS")) = 0
            /\ Count(TokenKeys(Str(sv).info), K("NUM_MERGED_SVS")) = 1
            /\ Count(TokenKeys(Str(sv).info), K("STDDEV_POS")) = 1

\* The text of a token before its first "=", and the text after it
KeyOf(tok) ==
    IF EQ \in Range(tok) THEN SubSeq(tok, 1, FirstIndex(tok, EQ) - 1) ELSE tok
ValOf(tok) ==
    IF EQ \in Range(tok) THEN SubSeq(tok, FirstIndex(tok, EQ) + 1, Len(tok)) ELSE <<>>

\* C9: the parser returns, for every text, the mapping from each token's
\* key (the text before its first "=", the token without one) to the
\* value of the last token with that key (the text after its first "=",
\* empty without one).
C9_ParserSplitsOnFirstEq ==
    ret.op = "make_info_dictionary" =>
        LET toks == Split(ret.info, SEMI)
            last(k) == CHOOSE i \in 1..Len(toks) :
                          /\ KeyOf(toks[i]) = k
                          /\ \A j \in (i + 1)..Len(toks) : KeyOf(toks[j]) # k
        IN  /\ ret.result.exc = NoExc
            /\ ret.result.dict =
                  [k \in {KeyOf(toks[i]) : i \in 1..Len(toks)} |-> ValOf(toks[last(k)])]

\* x's begins stay within 10000 of the begins of self and y together.
WithinSanity(self, x, y) ==
    /\ Abs(x.max_begin - Min(self.min_begin, y.min_begin)) <= SanityDistance
    /\ Abs(x.min_begin - Max(self.max_begin, y.max_begin)) <= SanityDistance

\* What C10 says of one merge: other objects self accepted are accepted by
\* the merged object (as amended: when x is within the sanity distance).
StillAccepted(amended) ==
    \A self \in Usable : \A y \in UsableIn(svs (-) One(self)) :
        (Merge(self, y) /\ self.type = y.type) =>
            \E m \in BagToSet(svs') :
               /\ svs' = ((svs (-) One(self)) (-) One(y)) (+) One(m)
               /\ \A x \in UsableIn((svs (-) One(self)) (-) One(y)) :
                  \A md \in MaxDistances : \A ms \in MaxSizeDiffs :
                     (/\ x.type = self.type
                      /\ NotYetFinalized(self) /\ NotYetFinalized(x) /\ NotYetFinalized(y)
                      /\ should_merge(self, x, md, ms)
                      /\ should_merge(self, y, md, ms)
                      /\ amended => WithinSanity(self, x, y))
                        => should_merge(m, x, md, ms)

\* C10 as claimed: if self accepts x and y, it still accepts x after
\* self.merge(y).
C10_Original == [][StillAccepted(FALSE)]_vars

\* C10 as amended: if self accepts x and y, and x's begins are within 10000
\* of the smallest and of the largest begin of self and y, then self still
\* accepts x after self.merge(y).
C10_Amended == [][StillAccepted(TRUE)]_vars

\* A merged object that accepts a third object only through the interval
\* it had before the merge, the absorbed one being out of reach
C10_Witness ==
    \E m \in Usable : \E x \in UsableIn(svs (-) One(m)) :
    \E md \in MaxDistances : \E ms \in MaxSizeDiffs :
        /\ Len(m.begins) = 2 /\ Len(x.begins) = 1
        /\ NotYetFinalized(m) /\ NotYetFinalized(x)
        /\ should_merge(m, x, md, ms)
        /\ Abs((x.end - x.begin) - (m.ends[2] - m.begins[2])) > ms
        /\ Abs((m.ends[1] - m.begins[1]) - (m.ends[2] - m.begins[2])) <= ms
        /\ Abs(m.begins[1] - m.begins[2]) <= md
        /\ Abs(m.ends[1] - m.ends[2]) <= md
        /\ m.min_begin < m.max_begin

=============================================================================
